---- MODULE Spec2Model ----
(***************************************************************************)
(* Model of camera_angle_selector.py: the module-load loop that builds     *)
(* CAMERA_ANGLES and CameraAngleSelector.execute, run by host threads.     *)
(*                                                                         *)
(* An input string is modelled as the sequence of its JSON lexemes         *)
(* (whitespace between lexemes is dropped, as json.loads skips it).  Two   *)
(* lexemes stand for inputs of a size no bounded sequence can spell out:   *)
(*   "bigint": an integer literal of more digits than CPython's            *)
(*             int-max-str-digits limit (4300 by default), v its sign;     *)
(*   "deep"  : a run of "[" longer than the interpreter's remaining        *)
(*             recursion depth.                                            *)
(***************************************************************************)
EXTENDS Integers, Sequences, FiniteSets, TLC

\* ------------------------------------------------------------------ bounds
\* Longest array (in elements) among the well-formed array inputs.
MaxLen == 2
\* Longest input (in lexemes) among the arbitrary lexeme sequences.
MaxRaw == 3

\* ------------------------------------------------------------- label lists
VIEW_DIRECTIONS ==
    << "front view", "front-right quarter view", "right side view",
       "back-right quarter view", "back view", "back-left quarter view",
       "left side view", "front-left quarter view" >>

HEIGHT_ANGLES ==
    << "low-angle shot", "eye-level shot", "elevated shot", "high-angle shot" >>

SHOT_SIZES == << "close-up", "medium shot", "wide shot" >>

\* Mutation of Prompt: the size label left out of the f-string.
PromptNoSize(direction, height, size) ==
    "<sks> " \o direction \o " " \o height

\* f"<sks> {direction} {height} {size}"
Prompt(direction, height, size) ==
    "<sks> " \o direction \o " " \o height \o " " \o size

\* The dict appended by one iteration of the innermost loop.
AngleRecord(direction, height, size) ==
    [ direction |-> direction, height |-> height, size |-> size,
      prompt |-> Prompt(direction, height, size) ]

\* Host threads that may be inside execute at the same time.
Threads == {"t1", "t2"}

VARIABLES
    CAMERA_ANGLES,      \* the module-level list
    loop,               \* module load: iterator positions of the three for loops,
                        \* or <<>> once the module is loaded
    pc,                 \* per thread: position in execute
    selected_indices,   \* per thread: the argument (a lexeme sequence)
    indices,            \* per thread: the decoded value
    clamped_indices,    \* per thread
    selected_prompts,   \* per thread
    pos,                \* per thread: position of the running for loop
    sub,                \* per thread: the subscripts applied to CAMERA_ANGLES so far
    exc                 \* per thread: the exception that left execute, or "none"

vars == << CAMERA_ANGLES, loop, pc, selected_indices, indices, clamped_indices,
           selected_prompts, pos, sub, exc >>

execVars == << pc, selected_indices, indices, clamped_indices,
               selected_prompts, pos, sub, exc >>

Loaded == loop = << >>

\* ------------------------------------------------------------ module load
\* Mutation of NextLoop: the loops nested the other way round (direction
\* innermost, size outermost).
NextLoopDirectionFastest(l) ==
    IF l[1] < Len(VIEW_DIRECTIONS) THEN << l[1] + 1, l[2], l[3] >>
    ELSE IF l[2] < Len(HEIGHT_ANGLES) THEN << 1, l[2] + 1, l[3] >>
    ELSE IF l[3] < Len(SHOT_SIZES) THEN << 1, 1, l[3] + 1 >>
    ELSE << >>

\* The iterator positions after one more pass of the innermost body:
\* size advances fastest, then height, then direction; <<>> when all three
\* loops are exhausted.
NextLoop(l) ==
    IF l[3] < Len(SHOT_SIZES) THEN << l[1], l[2], l[3] + 1 >>
    ELSE IF l[2] < Len(HEIGHT_ANGLES) THEN << l[1], l[2] + 1, 1 >>
    ELSE IF l[1] < Len(VIEW_DIRECTIONS) THEN << l[1] + 1, 1, 1 >>
    ELSE << >>

\* One CAMERA_ANGLES.append(...) of the nested loops.
LoadStep ==
    /\ ~Loaded
    /\ CAMERA_ANGLES' = Append(CAMERA_ANGLES,
            AngleRecord(VIEW_DIRECTIONS[loop[1]], HEIGHT_ANGLES[loop[2]],
                        SHOT_SIZES[loop[3]]))
    /\ loop' = NextLoop(loop)
    /\ UNCHANGED execVars

\* ---------------------------------------------------------------- json.loads
Tok(k, v) == [ k |-> k, v |-> v ]

\* Outcome of decoding: the exception raised ("none" when a value came back),
\* the Python type t of the value, its integer value v (int: the number;
\* bool: 1 for True, 0 for False; list, dict: the number of members; else 0),
\* for a list its items as <<[t, v], ...>> (execute never looks inside an
\* item, so the members of a nested list or dict are not kept), and the
\* position after the value.
Decoded(t, v, items, next) ==
    [ exc |-> "none", t |-> t, v |-> v, items |-> items, next |-> next ]

Failed(e) == [ exc |-> e, t |-> "NoneType", v |-> 0, items |-> << >>, next |-> 0 ]

RECURSIVE ScanOnce(_, _)
RECURSIVE JSONArray(_, _, _)
RECURSIVE JSONObject(_, _, _)

\* json.scanner: the value that starts at lexeme i.
ScanOnce(toks, i) ==
    IF i > Len(toks) THEN Failed("JSONDecodeError")
    ELSE LET k == toks[i].k IN
         CASE k = "int"    -> Decoded("int", toks[i].v, << >>, i + 1)
           [] k = "bigint" -> Failed("ValueError")
           [] k = "float"  -> Decoded("float", 0, << >>, i + 1)
           [] k = "str"    -> Decoded("str", 0, << >>, i + 1)
           [] k = "true"   -> Decoded("bool", 1, << >>, i + 1)
           [] k = "false"  -> Decoded("bool", 0, << >>, i + 1)
           [] k = "null"   -> Decoded("NoneType", 0, << >>, i + 1)
           [] k = "deep"   -> Failed("RecursionError")
           [] k = "["      ->
                IF i + 1 <= Len(toks) /\ toks[i + 1].k = "]"
                THEN Decoded("list", 0, << >>, i + 2)
                ELSE JSONArray(toks, i + 1, << >>)
           [] k = "{"      ->
                IF i + 1 <= Len(toks) /\ toks[i + 1].k = "}"
                THEN Decoded("dict", 0, << >>, i + 2)
                ELSE JSONObject(toks, i + 1, 0)
           [] OTHER        -> Failed("JSONDecodeError")

\* json.decoder.JSONArray: a value is expected at lexeme i; acc holds the
\* items decoded so far.
JSONArray(toks, i, acc) ==
    LET r == ScanOnce(toks, i) IN
    IF r.exc # "none" THEN r
    ELSE LET items == Append(acc, [ t |-> r.t, v |-> r.v ])
             j == r.next
         IN  IF j > Len(toks) THEN Failed("JSONDecodeError")
             ELSE IF toks[j].k = "]" THEN Decoded("list", Len(items), items, j + 1)
             ELSE IF toks[j].k = "," THEN JSONArray(toks, j + 1, items)
             ELSE Failed("JSONDecodeError")

\* json.decoder.JSONObject: a property name is expected at lexeme i; n pairs
\* were decoded so far.
JSONObject(toks, i, n) ==
    IF i + 1 > Len(toks) \/ toks[i].k # "str" \/ toks[i + 1].k # ":"
    THEN Failed("JSONDecodeError")
    ELSE LET r == ScanOnce(toks, i + 2) IN
         IF r.exc # "none" THEN r
         ELSE LET j == r.next IN
              IF j > Len(toks) THEN Failed("JSONDecodeError")
              ELSE IF toks[j].k = "}" THEN Decoded("dict", n + 1, << >>, j + 1)
              ELSE IF toks[j].k = "," THEN JSONObject(toks, j + 1, n + 1)
              ELSE Failed("JSONDecodeError")

\* json.loads(s): one value, then the end of the string ("Extra data"
\* otherwise).
JsonLoads(toks) ==
    LET r == ScanOnce(toks, 1) IN
    IF r.exc # "none" THEN r
    ELSE IF r.next <= Len(toks) THEN Failed("JSONDecodeError")
    ELSE r

\* ---------------------------------------------------------------- execute
\* Mutation of IsInstanceInt: "if idx and isinstance(idx, int)", which
\* drops the index 0.
IsInstanceIntTruthy(e) == e.t \in {"int", "bool"} /\ e.v # 0

\* isinstance(idx, int): bool is a subclass of int in Python.
IsInstanceInt(e) == e.t \in {"int", "bool"}

PyMin(a, b) == IF b < a THEN b ELSE a
PyMax(a, b) == IF b > a THEN b ELSE a

\* Mutation of ClampIndex: the lower clamp forgotten.
ClampIndexNoFloor(v, table) == PyMin(v, Len(table) - 1)

\* Mutation of ClampIndex: the upper clamp off by one.
ClampIndexOffByOne(v, table) == PyMax(0, PyMin(v, Len(table)))

\* max(0, min(idx, len(CAMERA_ANGLES) - 1))
ClampIndex(v, table) == PyMax(0, PyMin(v, Len(table) - 1))

\* Mutation of Subscript: CAMERA_ANGLES.pop(idx)["prompt"], which takes the
\* record out of the list.
SubscriptPop(table, i) ==
    IF 0 <= i /\ i < Len(table)
    THEN [ exc |-> "none", prompt |-> table[i + 1].prompt,
           table |-> SubSeq(table, 1, i) \o SubSeq(table, i + 2, Len(table)) ]
    ELSE [ exc |-> "IndexError", prompt |-> "", table |-> table ]

\* table[i]["prompt"] of a Python list: negative subscripts count from the
\* end, and a subscript outside [-len, len - 1] raises IndexError.  The
\* access is a read: the list after it is the list before it.
Subscript(table, i) ==
    IF 0 <= i /\ i < Len(table)
    THEN [ exc |-> "none", prompt |-> table[i + 1].prompt, table |-> table ]
    ELSE IF -Len(table) <= i /\ i < 0
    THEN [ exc |-> "none", prompt |-> table[Len(table) + i + 1].prompt, table |-> table ]
    ELSE [ exc |-> "IndexError", prompt |-> "", table |-> table ]

\* ------------------------------------------------------------------ inputs
\* Integer literals: both sides of each clamp boundary, the spec's examples.
IntLits == {-5, -1, 0, 3, 4, 95, 96, 200}

Lex(k) == Tok(k, 0)

\* JSON texts of single array elements: every JSON type, a nested array, an
\* object, and the two oversized lexemes.
ElemDocs ==
    { << Tok("int", n) >> : n \in IntLits }
    \cup { << Lex(k) >> : k \in {"float", "str", "true", "false", "null", "deep"} }
    \cup { << Tok("bigint", 1) >>,
           << Lex("["), Tok("int", 4), Lex("]") >>,
           << Lex("{"), Lex("str"), Lex(":"), Tok("int", 1), Lex("}") >> }

RECURSIVE JoinDocs(_)
JoinDocs(es) ==
    IF Len(es) = 0 THEN << >>
    ELSE IF Len(es) = 1 THEN es[1]
    ELSE es[1] \o << Lex(",") >> \o JoinDocs(Tail(es))

\* The JSON text of the array whose elements have the texts es.
EncodeArray(es) == << Lex("[") >> \o JoinDocs(es) \o << Lex("]") >>

\* The JSON text of a list of integers.
EncodeIntList(L) == EncodeArray([ i \in 1..Len(L) |-> << Tok("int", L[i]) >> ])

SeqsUpTo(S, n) == UNION { [1..m -> S] : m \in 0..n }

ArrayInputs == { EncodeArray(es) : es \in SeqsUpTo(ElemDocs, MaxLen) }

\* Arbitrary lexeme sequences, most of them malformed; "bad" is any text
\* that is no JSON lexeme (such as: not json).
RawAlphabet ==
    { Lex(k) : k \in {"[", "]", "{", "}", ",", ":", "str", "bad"} }
    \cup { Tok("int", 3) }

RawInputs == SeqsUpTo(RawAlphabet, MaxRaw)

\* "[3, 3, 3]" and "[1.5, \"2\", null, 4]"
ExampleInputs ==
    { EncodeIntList(<< 3, 3, 3 >>),
      EncodeArray(<< << Lex("float") >>, << Lex("str") >>, << Lex("null") >>,
                     << Tok("int", 4) >> >>) }

AllInputs == ArrayInputs \cup RawInputs \cup ExampleInputs

\* What the second, concurrent execution is called with.
ConcInputs ==
    { EncodeIntList(<< 3, 200 >>), << Lex("deep") >> }

Inputs(t) == IF t = "t1" THEN AllInputs ELSE ConcInputs

\* ------------------------------------------------------------------- state
NoValue == [ t |-> "NoneType", items |-> << >> ]

Init ==
    /\ CAMERA_ANGLES = << >>
    /\ loop = << 1, 1, 1 >>
    /\ pc = [ t \in Threads |-> "idle" ]
    /\ selected_indices = [ t \in Threads |-> << >> ]
    /\ indices = [ t \in Threads |-> NoValue ]
    /\ clamped_indices = [ t \in Threads |-> << >> ]
    /\ selected_prompts = [ t \in Threads |-> << >> ]
    /\ pos = [ t \in Threads |-> 0 ]
    /\ sub = [ t \in Threads |-> << >> ]
    /\ exc = [ t \in Threads |-> "none" ]

\* The host calls execute(selected_indices) on thread t.
Call(t) ==
    /\ Loaded
    /\ pc[t] = "idle"
    /\ \E s \in Inputs(t) : selected_indices' = [ selected_indices EXCEPT ![t] = s ]
    /\ pc' = [ pc EXCEPT ![t] = "loads" ]
    /\ UNCHANGED << CAMERA_ANGLES, loop, indices, clamped_indices,
                    selected_prompts, pos, sub, exc >>

\* try: indices = json.loads(selected_indices)
\* except (json.JSONDecodeError, TypeError): indices = []
\* Any other exception leaves execute.
Loads(t) ==
    /\ pc[t] = "loads"
    /\ LET r == JsonLoads(selected_indices[t]) IN
       IF r.exc = "none"
       THEN /\ indices' = [ indices EXCEPT ![t] = [ t |-> r.t, items |-> r.items ] ]
            /\ pc' = [ pc EXCEPT ![t] = "isinstance" ]
            /\ exc' = exc
       ELSE IF r.exc \in {"JSONDecodeError", "TypeError"}
       THEN /\ indices' = [ indices EXCEPT ![t] = [ t |-> "list", items |-> << >> ] ]
            /\ pc' = [ pc EXCEPT ![t] = "isinstance" ]
            /\ exc' = exc
       ELSE /\ indices' = indices
            /\ pc' = [ pc EXCEPT ![t] = "raised" ]
            /\ exc' = [ exc EXCEPT ![t] = r.exc ]
    /\ UNCHANGED << CAMERA_ANGLES, loop, selected_indices, clamped_indices,
                    selected_prompts, pos, sub >>

\* if not isinstance(indices, list): indices = []
\* clamped_indices = []
CheckList(t) ==
    /\ pc[t] = "isinstance"
    /\ indices' = [ indices EXCEPT ![t] =
            IF indices[t].t = "list" THEN indices[t]
            ELSE [ t |-> "list", items |-> << >> ] ]
    /\ clamped_indices' = [ clamped_indices EXCEPT ![t] = << >> ]
    /\ pos' = [ pos EXCEPT ![t] = 1 ]
    /\ pc' = [ pc EXCEPT ![t] = "clamp" ]
    /\ UNCHANGED << CAMERA_ANGLES, loop, selected_indices, selected_prompts, sub, exc >>

\* One pass of "for idx in indices", or its end (then selected_prompts = []).
ClampStep(t) ==
    /\ pc[t] = "clamp"
    /\ IF pos[t] <= Len(indices[t].items)
       THEN LET idx == indices[t].items[pos[t]] IN
            /\ clamped_indices' = [ clamped_indices EXCEPT ![t] =
                    IF IsInstanceInt(idx)
                    THEN Append(@, ClampIndex(idx.v, CAMERA_ANGLES))
                    ELSE @ ]
            /\ pos' = [ pos EXCEPT ![t] = @ + 1 ]
            /\ UNCHANGED << pc, selected_prompts >>
       ELSE /\ selected_prompts' = [ selected_prompts EXCEPT ![t] = << >> ]
            /\ pos' = [ pos EXCEPT ![t] = 1 ]
            /\ pc' = [ pc EXCEPT ![t] = "build" ]
            /\ UNCHANGED clamped_indices
    /\ UNCHANGED << CAMERA_ANGLES, loop, selected_indices, indices, sub, exc >>

\* One pass of "for idx in clamped_indices":
\* selected_prompts.append(CAMERA_ANGLES[idx]["prompt"]), or the end of the
\* loop and return (selected_prompts,).
BuildStep(t) ==
    /\ pc[t] = "build"
    /\ IF pos[t] <= Len(clamped_indices[t])
       THEN LET idx == clamped_indices[t][pos[t]]
                r == Subscript(CAMERA_ANGLES, idx)
            IN  /\ sub' = [ sub EXCEPT ![t] = Append(@, idx) ]
                /\ CAMERA_ANGLES' = r.table
                /\ IF r.exc = "none"
                   THEN /\ selected_prompts' =
                              [ selected_prompts EXCEPT ![t] = Append(@, r.prompt) ]
                        /\ pos' = [ pos EXCEPT ![t] = @ + 1 ]
                        /\ UNCHANGED << pc, exc >>
                   ELSE /\ pc' = [ pc EXCEPT ![t] = "raised" ]
                        /\ exc' = [ exc EXCEPT ![t] = r.exc ]
                        /\ UNCHANGED << selected_prompts, pos >>
       ELSE /\ pc' = [ pc EXCEPT ![t] = "returned" ]
            /\ UNCHANGED << CAMERA_ANGLES, selected_prompts, pos, sub, exc >>
    /\ UNCHANGED << loop, selected_indices, indices, clamped_indices >>

\* The host takes the result (or the exception) and the thread is free for
\* the next call; the call's locals are gone.
Collect(t) ==
    /\ pc[t] \in {"returned", "raised"}
    /\ pc' = [ pc EXCEPT ![t] = "idle" ]
    /\ selected_indices' = [ selected_indices EXCEPT ![t] = << >> ]
    /\ indices' = [ indices EXCEPT ![t] = NoValue ]
    /\ clamped_indices' = [ clamped_indices EXCEPT ![t] = << >> ]
    /\ selected_prompts' = [ selected_prompts EXCEPT ![t] = << >> ]
    /\ pos' = [ pos EXCEPT ![t] = 0 ]
    /\ sub' = [ sub EXCEPT ![t] = << >> ]
    /\ exc' = [ exc EXCEPT ![t] = "none" ]
    /\ UNCHANGED << CAMERA_ANGLES, loop >>

Next ==
    \/ LoadStep
    \/ \E t \in Threads : Call(t)
    \/ \E t \in Threads : Loads(t)
    \/ \E t \in Threads : CheckList(t)
    \/ \E t \in Threads : ClampStep(t)
    \/ \E t \in Threads : BuildStep(t)
    \/ \E t \in Threads : Collect(t)

Spec == Init /\ [][Next]_vars

\* ================================================================== claims
\* The prompt of the record at 0-based position i, "" where there is none.
PromptAt(i) ==
    IF 0 <= i /\ i < Len(CAMERA_ANGLES) THEN CAMERA_ANGLES[i + 1].prompt ELSE ""

\* max(0, min(v, 95)) as the claims state it.
ExpectedIndex(v) == IF v < 0 THEN 0 ELSE IF v >= 96 THEN 95 ELSE v

IsJsonInt(e) == e.t = "int"

Items(t) == indices[t].items

\* The lists of in-range integers with their JSON texts.
InRangeCases ==
    { << EncodeIntList(L), L >> : L \in SeqsUpTo(IntLits \cap 0..95, MaxLen + 1) }

\* C1: for every input that is the JSON text of a list L of integers in
\* [0, 95], execute returns (it does not raise) a list of exactly len(L)
\* prompts whose i-th element is CAMERA_ANGLES[L[i]]["prompt"].
C1_InRangeListResolves ==
    \A t \in Threads :
        pc[t] \in {"returned", "raised"} =>
            \A c \in InRangeCases :
                selected_indices[t] = c[1] =>
                    /\ pc[t] = "returned"
                    /\ Len(selected_prompts[t]) = Len(c[2])
                    /\ \A i \in 1..Len(c[2]) :
                           selected_prompts[t][i] = PromptAt(c[2][i])

\* "[95, 0]" was resolved to the prompts of the records 95 and 0.
C1_Witness ==
    \E t \in Threads :
        /\ pc[t] = "returned"
        /\ selected_indices[t] = EncodeIntList(<< 95, 0 >>)
        /\ selected_prompts[t] = << PromptAt(95), PromptAt(0) >>
        /\ PromptAt(95) # PromptAt(0)

\* C2: execute is total: on every input string it returns a value and no
\* exception ever leaves it.
C2_ExecuteNeverRaises == \A t \in Threads : pc[t] # "raised"

\* C3: only elements of JSON type integer contribute a prompt; elements of
\* every other JSON type (float, string, boolean, null, array, object) are
\* dropped: the number of clamped indices, and of prompts returned, is the
\* number of integer elements of the decoded array.
C3_OnlyIntegersContribute ==
    \A t \in Threads :
        pc[t] \in {"build", "returned"} =>
            /\ Len(clamped_indices[t]) = Len(SelectSeq(Items(t), IsJsonInt))
            /\ pc[t] = "returned" =>
                   Len(selected_prompts[t]) = Len(SelectSeq(Items(t), IsJsonInt))

\* C4: an integer element v is never dropped: the pass of the clamp loop
\* over it appends max(0, min(v, 95)) (0 for v < 0, 95 for v >= 96, v
\* otherwise), and an array of integers alone returns, element by element,
\* the prompts at those positions ("[-5, 200]": those at 0 and 95).
C4_IntegersClampedNotDropped ==
    \A t \in Threads :
        /\ ( /\ pc[t] = "clamp"
             /\ pos[t] > 1
             /\ IsJsonInt(Items(t)[pos[t] - 1]) ) =>
                /\ Len(clamped_indices[t]) >= 1
                /\ clamped_indices[t][Len(clamped_indices[t])]
                       = ExpectedIndex(Items(t)[pos[t] - 1].v)
        /\ ( /\ pc[t] = "returned"
             /\ \A i \in 1..Len(Items(t)) : IsJsonInt(Items(t)[i]) ) =>
                selected_prompts[t] =
                    [ i \in 1..Len(Items(t)) |-> PromptAt(ExpectedIndex(Items(t)[i].v)) ]

\* "[-5, 200]" returned the prompts at 0 and 95, in that order.
C4_Witness ==
    \E t \in Threads :
        /\ pc[t] = "returned"
        /\ selected_indices[t] = EncodeIntList(<< -5, 200 >>)
        /\ selected_prompts[t] = << PromptAt(0), PromptAt(95) >>
        /\ PromptAt(0) # PromptAt(95)

\* C5: for an input that decodes to an array, the output has as many prompts
\* as the array has integer elements, and the k-th prompt is that of the k-th
\* integer element, in the original order, duplicates kept.
C5_OutputFollowsIntegerElements ==
    \A t \in Threads :
        pc[t] = "returned" =>
            LET ints == SelectSeq(Items(t), IsJsonInt) IN
            /\ Len(selected_prompts[t]) = Len(ints)
            /\ \A k \in 1..Len(ints) :
                   k <= Len(selected_prompts[t]) =>
                       selected_prompts[t][k] = PromptAt(ExpectedIndex(ints[k].v))

\* C6: an input that fails to decode, or decodes to a value that is not an
\* array, or is the empty array, makes execute return the empty list.
C6_UndecodableOrNonArrayGivesEmpty ==
    \A t \in Threads :
        pc[t] \in {"returned", "raised"} =>
            LET r == JsonLoads(selected_indices[t]) IN
            (r.exc # "none" \/ r.t # "list" \/ r.items = << >>) =>
                /\ pc[t] = "returned"
                /\ selected_prompts[t] = << >>

\* The record C7 states for direction d, height h and size s (0-based).
RecordClaimed ==
    [ d \in 0..7, h \in 0..3, s \in 0..2 |->
        [ direction |-> VIEW_DIRECTIONS[d + 1],
          height |-> HEIGHT_ANGLES[h + 1],
          size |-> SHOT_SIZES[s + 1],
          prompt |-> "<sks> " \o VIEW_DIRECTIONS[d + 1] \o " "
                     \o HEIGHT_ANGLES[h + 1] \o " " \o SHOT_SIZES[s + 1] ] ]

\* C7: after module load the table has 8 * 4 * 3 = 96 records and, for d in
\* 0..7, h in 0..3, s in 0..2, the record at 12*d + 3*h + s holds
\* VIEW_DIRECTIONS[d], HEIGHT_ANGLES[h], SHOT_SIZES[s] and the prompt "<sks>"
\* followed by the three labels, single spaces between; position 0 is the
\* first direction, height and size.
C7_TableIsOrderedProduct ==
    Loaded =>
        /\ Len(CAMERA_ANGLES) = 96
        /\ Len(CAMERA_ANGLES) = 8 * 4 * 3
        /\ \A d \in 0..7 : \A h \in 0..3 : \A s \in 0..2 :
               CAMERA_ANGLES[12 * d + 3 * h + s + 1] = RecordClaimed[d, h, s]
        /\ CAMERA_ANGLES[1].prompt = "<sks> front view low-angle shot close-up"

\* The module is loaded and the last record is the last of each label list.
C7_Witness ==
    /\ Loaded
    /\ Len(CAMERA_ANGLES) = 96
    /\ CAMERA_ANGLES[96].prompt
           = "<sks> front-left quarter view high-angle shot wide shot"
    /\ CAMERA_ANGLES[17].prompt = "<sks> front-right quarter view eye-level shot medium shot"

\* C8: every subscript execute applies to CAMERA_ANGLES lies in
\* [0, len(CAMERA_ANGLES) - 1] = [0, 95]: no IndexError, no negative
\* (wrap-around) access.
C8_SubscriptsInRange ==
    \A t \in Threads :
        /\ exc[t] # "IndexError"
        /\ \A k \in 1..Len(sub[t]) :
               /\ 0 <= sub[t][k]
               /\ sub[t][k] <= Len(CAMERA_ANGLES) - 1
               /\ sub[t][k] <= 95

\* "[-5, 200]" made execute subscript the table with 0 and then 95.
C8_Witness ==
    \E t \in Threads :
        /\ selected_indices[t] = EncodeIntList(<< -5, 200 >>)
        /\ sub[t] = << 0, 95 >>

\* What execute(s) gives when nothing but s and the table built at load
\* decides it: the exception, or the prompts.
ResolveAlone(s) ==
    LET r == JsonLoads(s)
        items == IF r.exc = "none" /\ r.t = "list" THEN r.items ELSE << >>
        kept == SelectSeq(items, IsInstanceInt)
    IN  IF r.exc \in {"RecursionError", "ValueError"}
        THEN [ exc |-> r.exc, prompts |-> << >> ]
        ELSE [ exc |-> "none",
               prompts |-> [ k \in 1..Len(kept) |->
                               Prompt(VIEW_DIRECTIONS[(ExpectedIndex(kept[k].v) \div 12) + 1],
                                      HEIGHT_ANGLES[((ExpectedIndex(kept[k].v) % 12) \div 3) + 1],
                                      SHOT_SIZES[(ExpectedIndex(kept[k].v) % 3) + 1]) ] ]

Locals(t) ==
    << pc[t], selected_indices[t], indices[t], clamped_indices[t],
       selected_prompts[t], pos[t], sub[t], exc[t] >>

\* C9: once the module is loaded no step, of any thread in any interleaving,
\* changes CAMERA_ANGLES; a step of one thread leaves the locals of the
\* other untouched; and what a call ends with is what its own input alone
\* decides.
C9_TableReadOnlyCallsIndependent ==
    [][ Loaded =>
          /\ CAMERA_ANGLES' = CAMERA_ANGLES
          /\ \A t, u \in Threads :
                 t # u => (Locals(t)' = Locals(t) \/ Locals(u)' = Locals(u))
          /\ \A t \in Threads :
                 (pc[t] \notin {"returned", "raised"} /\ pc'[t] \in {"returned", "raised"}) =>
                     /\ exc'[t] = ResolveAlone(selected_indices'[t]).exc
                     /\ pc'[t] = "returned" =>
                            selected_prompts'[t] = ResolveAlone(selected_indices'[t]).prompts
      ]_vars

\* Two calls with the same input are under way at once: one has returned
\* while the other is in the middle of its lookup loop.
C9_Witness ==
    /\ pc["t1"] = "returned"
    /\ pc["t2"] = "build"
    /\ pos["t2"] = 2
    /\ selected_indices["t1"] = selected_indices["t2"]
    /\ Len(selected_prompts["t1"]) = 2
    /\ Len(CAMERA_ANGLES) = 96

\* C10: the 96 prompts are pairwise distinct, so a returned prompt names
\* exactly one record: the one at the clamped index it was looked up with.
C10_PromptsPairwiseDistinct ==
    Loaded =>
        /\ Cardinality({ CAMERA_ANGLES[i].prompt : i \in 1..Len(CAMERA_ANGLES) }) = 96
        /\ \A t \in Threads :
               pc[t] = "returned" =>
                   \A k \in 1..Len(selected_prompts[t]) :
                       { i \in 0..95 : PromptAt(i) = selected_prompts[t][k] }
                           = { clamped_indices[t][k] }

\* A call returned two different prompts for two different clamped indices.
C10_Witness ==
    \E t \in Threads :
        /\ pc[t] = "returned"
        /\ clamped_indices[t] = << 3, 95 >>
        /\ Len(selected_prompts[t]) = 2
        /\ selected_prompts[t][1] # selected_prompts[t][2]

====
